---- MODULE Spec2Model ----
(***************************************************************************)
(* FRETBursts: the usALEX alternation-period classifier (loaders.py) and   *)
(* the burst-selection predicates (select_bursts.py).                      *)
(*                                                                         *)
(* The dataset object `d` is a dynamically attributed bag: it is modelled  *)
(* as a function from field names to values, Data.add extends its domain   *)
(* and Data.delete shrinks it.  `call` is the last call made on it, `ret`  *)
(* what that call returned or raised, `frame` the local arrays of the      *)
(* last usalex_apply_period run.                                           *)
(***************************************************************************)
EXTENDS Integers, Sequences, FiniteSets, TLC

VARIABLES d, call, ret, frame

vars == <<d, call, ret, frame>>

(***************************************************************************)
(* Bounds of the model.                                                    *)
(***************************************************************************)
MaxPh == 2          \* photons in a raw stream
MaxEdge == 2        \* largest window edge; the alternation period is MaxEdge + 1

(***************************************************************************)
(* numpy helpers                                                           *)
(***************************************************************************)
SeqsUpTo(S, n) == UNION {[1..k -> S] : k \in 0..n}

\* a + b on two boolean arrays
MaskOr(a, b) == [i \in 1..Len(a) |-> a[i] \/ b[i]]

\* a * b on two boolean arrays
MaskAnd(a, b) == [i \in 1..Len(a) |-> a[i] /\ b[i]]

\* mask.sum()
RECURSIVE MaskSum(_)
MaskSum(m) == IF m = <<>> THEN 0
              ELSE (IF Head(m) THEN 1 ELSE 0) + MaskSum(Tail(m))

\* mask.any(), mask.all()
MaskAny(m) == \E i \in 1..Len(m) : m[i]
MaskAll(m) == \A i \in 1..Len(m) : m[i]

\* arr[mask]: boolean indexing keeps, in order, the elements whose mask is set
RECURSIVE Take(_, _)
Take(arr, m) == IF arr = <<>> THEN <<>>
                ELSE (IF Head(m) THEN <<Head(arr)>> ELSE <<>>)
                     \o Take(Tail(arr), Tail(m))

\* Data.add(**kwargs): set the fields of kw, keep the others
DataAdd(obj, kw) ==
    [f \in DOMAIN obj \cup DOMAIN kw |-> IF f \in DOMAIN kw THEN kw[f] ELSE obj[f]]

\* Data.delete(name)
DataDelete(obj, names) == [f \in DOMAIN obj \ names |-> obj[f]]

(***************************************************************************)
(* loaders.py: masks for the alternating periods                           *)
(***************************************************************************)
SelectOuterMutant(times, period, edges) ==
    MaskOr([i \in 1..Len(times) |-> (times[i] % period) >= edges[1]],
           [i \in 1..Len(times) |-> (times[i] % period) < edges[2]])

_select_outer_range(times, period, edges) ==
    MaskOr([i \in 1..Len(times) |-> (times[i] % period) > edges[1]],
           [i \in 1..Len(times) |-> (times[i] % period) < edges[2]])

_select_inner_range(times, period, edges) ==
    MaskAnd([i \in 1..Len(times) |-> (times[i] % period) > edges[1]],
            [i \in 1..Len(times) |-> (times[i] % period) < edges[2]])

_select_range(times, period, edges) ==
    IF edges[1] < edges[2] THEN _select_inner_range(times, period, edges)
    ELSE _select_outer_range(times, period, edges)

\* det_t == ch
ChMaskMutant(det_t, ch) == [i \in 1..Len(det_t) |-> det_t[i] % 2 = ch]

ChMask(det_t, ch) == [i \in 1..Len(det_t) |-> det_t[i] = ch]

\* Safety check: each ph is either D or A ex (not both)
ExcitationExclusiveMutant(d_ex_mask_val, a_ex_mask_val) == TRUE

ExcitationExclusive(d_ex_mask_val, a_ex_mask_val) ==
    ~MaskAny(MaskAnd(d_ex_mask_val, a_ex_mask_val))

\* The raw photon streams a loader can hand over: ordered timestamps (up to
\* one full period, where the modulo wraps to 0), each paired with a
\* detector label (0 donor, 1 acceptor, 2 any other detector).
Period == MaxEdge + 1

RawTimes == {t \in SeqsUpTo(1..Period, MaxPh) :
                \A i \in 1..(Len(t) - 1) : t[i] <= t[i + 1]}

Windows == (0..MaxEdge) \X (0..MaxEdge)

NoCall == [fn |-> "none"]
NoRet == [raised |-> "none", value |-> <<>>]
NoFrame == [ph_times_val |-> <<>>, d_ex_mask_val |-> <<>>, a_ex_mask_val |-> <<>>]

\* load_usalex, followed by d.add(D_ON=..., A_ON=..., alex_period=...)
InitAlex ==
    \E t \in RawTimes, don \in Windows, aon \in Windows :
    \E det \in [1..Len(t) -> 0..2] :
        /\ d = [ph_times_t |-> t, det_t |-> det, det_donor_accept |-> <<0, 1>>,
                D_ON |-> don, A_ON |-> aon, alex_period |-> Period,
                ALEX |-> TRUE, nch |-> 1]
        /\ call = NoCall
        /\ ret = NoRet
        /\ frame = NoFrame

\* The locals are bound once each, in the order the code assigns them.
usalex_apply_period(delete_ph_t) ==
    /\ {"ph_times_t", "det_t"} \subseteq DOMAIN d
    /\ \E d_ch_mask_t \in {ChMask(d.det_t, d.det_donor_accept[1])},
          a_ch_mask_t \in {ChMask(d.det_t, d.det_donor_accept[2])} :
       \E valid_mask \in {MaskOr(d_ch_mask_t, a_ch_mask_t)} :
       \E ph_times_val \in {Take(d.ph_times_t, valid_mask)},
          d_ch_mask_val \in {Take(d_ch_mask_t, valid_mask)},
          a_ch_mask_val \in {Take(a_ch_mask_t, valid_mask)} :
       \E d_ex_mask_val \in {_select_range(ph_times_val, d.alex_period, d.D_ON)},
          a_ex_mask_val \in {_select_range(ph_times_val, d.alex_period, d.A_ON)} :
       \E mask \in {MaskOr(d_ex_mask_val, a_ex_mask_val)} :
       \E ph_times \in {Take(ph_times_val, mask)},
          d_em \in {Take(d_ch_mask_val, mask)},
          a_em \in {Take(a_ch_mask_val, mask)},
          d_ex \in {Take(d_ex_mask_val, mask)},
          a_ex \in {Take(a_ex_mask_val, mask)} :
       LET added == DataAdd(d, [ph_times_m |-> <<ph_times>>, D_em |-> <<d_em>>,
                                A_em |-> <<a_em>>, D_ex |-> <<d_ex>>,
                                A_ex |-> <<a_ex>>])
           step1 == /\ MaskAll(MaskOr(d_ch_mask_val, a_ch_mask_val))
                    /\ ~MaskAny(MaskAnd(d_ch_mask_val, a_ch_mask_val))
           step2 == ExcitationExclusive(d_ex_mask_val, a_ex_mask_val)
           post == /\ MaskSum(d_em) + MaskSum(a_em) = Len(ph_times)
                   /\ MaskAny(MaskAnd(d_em, a_em)) = FALSE
                   /\ Len(a_ex) = Len(a_em) /\ Len(a_em) = Len(d_ex)
                   /\ Len(d_ex) = Len(d_em) /\ Len(d_em) = Len(ph_times)
       IN
       /\ call' = [fn |-> "usalex_apply_period", delete_ph_t |-> delete_ph_t]
       /\ IF ~step1
          THEN /\ ret' = [raised |-> "AssertionError", value |-> <<"step1">>]
               /\ frame' = NoFrame
               /\ d' = d
          ELSE /\ frame' = [ph_times_val |-> ph_times_val,
                            d_ex_mask_val |-> d_ex_mask_val,
                            a_ex_mask_val |-> a_ex_mask_val]
               /\ IF ~step2
                  THEN /\ ret' = [raised |-> "AssertionError", value |-> <<"step2">>]
                       /\ d' = d
                  ELSE IF ~post
                  THEN /\ ret' = [raised |-> "AssertionError", value |-> <<"post">>]
                       /\ d' = d
                  ELSE /\ ret' = [raised |-> "none", value |-> <<>>]
                       /\ d' = IF delete_ph_t
                               THEN DataDelete(added, {"ph_times_t", "det_t"})
                               ELSE added

NextAlex == \E delete_ph_t \in BOOLEAN : usalex_apply_period(delete_ph_t)

SpecAlex == InitAlex /\ [][NextAlex]_vars

(***************************************************************************)
(* Claims on the alternation-period classifier                             *)
(***************************************************************************)
\* r lies in the window (e0, e1): strictly between the edges of an inner
\* window, strictly beyond either edge of an outer (wrapping) one
InWindow(r, e) == \/ e[1] < e[2] /\ e[1] < r /\ r < e[2]
                  \/ e[1] >= e[2] /\ (r > e[1] \/ r < e[2])

Applied == call.fn = "usalex_apply_period"

Classified == Applied /\ ret.value # <<"step1">>

MatchesWindow(m, times, period, e) ==
    /\ Len(m) = Len(times)
    /\ \A i \in 1..Len(times) :
          /\ m[i] <=> InWindow(times[i] % period, e)
          /\ (times[i] % period) \in {e[1], e[2]} => ~m[i]

\* C1: the mask _select_range returns has the length of `times`, and its
\* element i is true iff times[i] mod period lies strictly inside the inner
\* window (e0 < e1) or strictly outside the outer one (e0 >= e1); a
\* remainder equal to either edge is false in both forms.
C1_SelectRange ==
    Classified =>
        /\ MatchesWindow(frame.d_ex_mask_val, frame.ph_times_val, d.alex_period, d.D_ON)
        /\ MatchesWindow(frame.a_ex_mask_val, frame.ph_times_val, d.alex_period, d.A_ON)

\* an inner donor window with a photon on its lower edge and one inside it,
\* and an outer acceptor window that holds a photon
C1_Witness ==
    /\ Classified
    /\ d.D_ON[1] < d.D_ON[2] /\ d.A_ON[1] >= d.A_ON[2]
    /\ \E i, j, k \in 1..Len(frame.ph_times_val) :
          /\ frame.ph_times_val[i] % d.alex_period = d.D_ON[1]
          /\ ~frame.d_ex_mask_val[i]
          /\ frame.d_ex_mask_val[j]
          /\ frame.a_ex_mask_val[k]

Xor(a, b) == (a \/ b) /\ ~(a /\ b)

\* C2: a run that passes the step-1 and step-2 assertions never fails a
\* post-condition assertion, and its five outputs have one length, with
\* every retained photon donor-emission XOR acceptor-emission and
\* donor-excitation XOR acceptor-excitation.
C2_OutputsAligned ==
    Applied =>
        /\ ret.raised = "AssertionError" => ret.value \in {<<"step1">>, <<"step2">>}
        /\ ret.raised = "none" =>
              LET n == Len(d.ph_times_m[1]) IN
              /\ Len(d.D_em[1]) = n /\ Len(d.A_em[1]) = n
              /\ Len(d.D_ex[1]) = n /\ Len(d.A_ex[1]) = n
              /\ MaskSum(d.D_em[1]) + MaskSum(d.A_em[1]) = n
              /\ \A i \in 1..n : /\ Xor(d.D_em[1][i], d.A_em[1][i])
                                 /\ Xor(d.D_ex[1][i], d.A_ex[1][i])

\* a successful run that retained two photons, one per emission channel and
\* one per excitation window
C2_Witness ==
    /\ Applied /\ ret.raised = "none"
    /\ Len(d.ph_times_m[1]) = 2
    /\ d.D_em[1] = <<TRUE, FALSE>>
    /\ \E i, j \in 1..2 : d.D_ex[1][i] /\ d.A_ex[1][j]

\* the raw photons from index i on that the specification retains
RECURSIVE KeptFrom(_, _)
KeptFrom(obj, i) ==
    IF i > Len(obj.ph_times_t) THEN <<>>
    ELSE LET r == obj.ph_times_t[i] % obj.alex_period
             keep == /\ obj.det_t[i] \in {obj.det_donor_accept[1], obj.det_donor_accept[2]}
                     /\ InWindow(r, obj.D_ON) \/ InWindow(r, obj.A_ON)
         IN (IF keep THEN <<obj.ph_times_t[i]>> ELSE <<>>) \o KeptFrom(obj, i + 1)

\* C3: after a successful run the stored photon times are, in the original
\* order, exactly the raw photons on the donor or acceptor detector whose
\* timestamp falls in the donor or the acceptor window.
C3_KeptPhotons ==
    [][(call'.fn = "usalex_apply_period" /\ ret'.raised = "none")
          => d'.ph_times_m = <<KeptFrom(d, 1)>>]_vars

\* a successful run (raw arrays kept) that retained one of two photons and
\* dropped the other, which came from another detector or fell in no window
C3_Witness ==
    /\ Applied /\ ret.raised = "none" /\ ~call.delete_ph_t
    /\ Len(d.ph_times_t) = 2 /\ Len(d.ph_times_m[1]) = 1
    /\ \E i \in 1..2 : d.det_t[i] = 2 /\ InWindow(d.ph_times_t[i] % d.alex_period, d.D_ON)

\* a donor- or acceptor-channel photon of obj lies in both windows
Overlap(obj) ==
    \E i \in 1..Len(obj.ph_times_t) :
        /\ obj.det_t[i] \in {obj.det_donor_accept[1], obj.det_donor_accept[2]}
        /\ InWindow(obj.ph_times_t[i] % obj.alex_period, obj.D_ON)
        /\ InWindow(obj.ph_times_t[i] % obj.alex_period, obj.A_ON)

\* C4: when a donor- or acceptor-channel photon satisfies both windows the
\* call raises an assertion error and leaves the dataset as it was: no
\* output field is written and the raw arrays are not deleted.
C4_OverlapAborts ==
    [][(call'.fn = "usalex_apply_period" /\ Overlap(d))
          => /\ ret'.raised = "AssertionError"
             /\ d' = d
             /\ DOMAIN d' \cap {"ph_times_m", "D_em", "A_em", "D_ex", "A_ex"} = {}
             /\ {"ph_times_t", "det_t"} \subseteq DOMAIN d']_vars

\* an aborted run on a stream of which one photon lies in both windows and
\* another in exactly one
C4_Witness ==
    /\ Applied /\ ret.raised = "AssertionError" /\ call.delete_ph_t
    /\ Overlap(d)
    /\ \E i \in 1..Len(d.ph_times_t) :
          Xor(InWindow(d.ph_times_t[i] % d.alex_period, d.D_ON),
              InWindow(d.ph_times_t[i] % d.alex_period, d.A_ON))

(***************************************************************************)
(* select_bursts.py: the burst-selection predicates                        *)
(*                                                                         *)
(* A predicate is a pure function of the dataset, so a behaviour draws a   *)
(* dataset and applies one predicate to it (the Sel dispatcher of the      *)
(* module docstring).  Arrays are 1-based here, ich and bp stay 0-based.   *)
(* The per-burst counts nd, na, naa, nt are floats in the code             *)
(* (background-corrected); they are held as integers in units of           *)
(* 1/CountScale counts, so that halves exist.  gamma, gamma1, F and P_th   *)
(* are exact fractions <<numerator, denominator>>.                         *)
(***************************************************************************)
MaxBursts == 2      \* bursts in a channel (size selectors)
MaxCount == 1       \* largest nd or na, in units of 1/CountScale counts
CountScale == 2
TicksPerMs == 80000         \* 1e-3/clk_p, clk_p = 12.5e-9 s
TicksPerSec == 80000000     \* 1/clk_p

None == <<>>

Min(a, b) == IF a <= b THEN a ELSE b
Max(a, b) == IF a >= b THEN a ELSE b

Zeros(n) == [i \in 1..n |-> 0]

\* np.size of a scalar threshold
NpSize(th) == 1

\* A dataset after burst search: one channel, all burst-level arrays of one
\* length.  bg* hold one rate (counts per second) per period bin.
BurstData(nd, na, naa, nt, bp, mburst, bg, alex) ==
    [nd |-> <<nd>>, na |-> <<na>>, naa |-> <<naa>>, nt |-> <<nt>>,
     bp |-> <<bp>>, mburst |-> <<mburst>>,
     bg |-> <<bg>>, bg_dd |-> <<bg>>, bg_ad |-> <<bg>>, bg_aa |-> <<bg>>,
     ALEX |-> alex, nch |-> 1]

\* bursts of one tick, one after the other, none touching
PlainBursts(n) == [i \in 1..n |-> [start |-> 2 * i, width |-> 1]]

\* The dispatcher: record the predicate applied and what it returned or raised
Sel(fn, args, result) ==
    /\ call' = [fn |-> fn, args |-> args]
    /\ ret' = result
    /\ UNCHANGED <<d, frame>>

Returned(value) == [raised |-> "none", value |-> value]
Raised(exc) == [raised |-> exc, value |-> <<>>]

\* str_G: "G%.1f" % gamma or "G1_%.1f" % gamma1, as its pieces
str_G(gamma, gamma1) ==
    IF gamma1 = None THEN <<"G", gamma>> ELSE <<"G1_", gamma1>>

\* burst_size of nda, nda_percentile and topN_nda: the numerators over one
\* common denominator, so that burst i has size num[i] / (den * CountScale)
BurstSize(obj, ich, gamma, gamma1) ==
    LET nd_ == obj.nd[ich + 1]
        na_ == obj.na[ich + 1]
    IN IF gamma1 # None
       THEN [num |-> [i \in 1..Len(nd_) |-> nd_[i] * gamma1[1] + na_[i] * gamma1[2]],
             den |-> gamma1[2]]
       ELSE [num |-> [i \in 1..Len(nd_) |-> nd_[i] * gamma[1] + na_[i] * gamma[2]],
             den |-> gamma[1]]

\* burst_size += d.naa[ich]
AddNaa(obj, ich, size, add_naa) ==
    IF obj.ALEX /\ add_naa
    THEN [num |-> [i \in 1..Len(size.num) |-> size.num[i] + obj.naa[ich + 1][i] * size.den],
          den |-> size.den]
    ELSE size

\* (burst_size >= th1)*(burst_size <= th2)
NdaMaskMutant(size, th1, th2) ==
    [i \in 1..Len(size.num) |->
        /\ size.num[i] <= th1 * size.den * CountScale
        /\ size.num[i] <= th2 * size.den * CountScale]

NdaMask(size, th1, th2) ==
    [i \in 1..Len(size.num) |->
        /\ size.num[i] >= th1 * size.den * CountScale
        /\ size.num[i] <= th2 * size.den * CountScale]

nda(obj, ich, th1, th2, gamma, gamma1, add_naa) ==
    LET burst_size == AddNaa(obj, ich, BurstSize(obj, ich, gamma, gamma1), add_naa)
        th1_ == IF obj.nch > 1 /\ NpSize(th1) = obj.nch THEN th1[ich + 1] ELSE th1
        th2_ == IF obj.nch > 1 /\ NpSize(th2) = obj.nch THEN th2[ich + 1] ELSE th2
        s == <<"nda_th", th1_>> \o (IF th2_ < 1000 THEN <<"_th2_", th2_>> ELSE <<>>)
    IN Returned(<<NdaMask(burst_size, th1_, th2_), s \o str_G(gamma, gamma1)>>)

\* burst_size.argsort(): a permutation of the indices that puts the sizes in
\* ascending order; the order of equal sizes is whatever the sort yields
ArgSorts(v) ==
    {p \in [1..Len(v) -> 1..Len(v)] :
        /\ \A i, j \in 1..Len(v) : i # j => p[i] # p[j]
        /\ \A i \in 1..(Len(v) - 1) : v[p[i]] <= v[p[i + 1]]}

\* seq[start:] for a Python start index
PySliceFrom(seq, start) ==
    LET n == Len(seq)
        s == IF start < 0 THEN Max(start + n, 0) ELSE Min(start, n)
    IN SubSeq(seq, s + 1, n)

SeqRange(seq) == {seq[i] : i \in 1..Len(seq)}

topN_nda(obj, ich, N, gamma, gamma1, index_sorted) ==
    LET picked == SeqRange(PySliceFrom(index_sorted, 0 - N))
        burst_mask == [i \in 1..Len(index_sorted) |-> i \in picked]
    IN Returned(<<burst_mask, <<"topN", N>> \o str_G(gamma, gamma1)>>)

Gammas == {<<1, 1>>, <<1, 2>>}
Counts == 0..MaxCount
Ths == {0, 1, 2, 1000}

\* the correction modes: gamma alone, or gamma1 given as well
Modes == (Gammas \X {None}) \cup {<<<<1, 1>>, <<2, 1>>>>}

\* naa is 0 for a single-excitation acquisition
NaaFor(n, alex) == IF alex THEN {Zeros(n), [i \in 1..n |-> i % 2]} ELSE {Zeros(n)}

InitSize ==
    \E nd_ \in SeqsUpTo(Counts, MaxBursts), alex \in BOOLEAN :
    \E na_ \in [1..Len(nd_) -> Counts], naa_ \in NaaFor(Len(nd_), alex) :
        /\ d = BurstData(nd_, na_, naa_, [i \in 1..Len(nd_) |-> nd_[i] + na_[i]],
                         Zeros(Len(nd_)), PlainBursts(Len(nd_)), <<0>>, alex)
        /\ call = NoCall
        /\ ret = NoRet
        /\ frame = NoFrame

Sel_nda ==
    \E th1 \in Ths, th2 \in Ths, m \in Modes, add_naa \in BOOLEAN :
        /\ call.fn = "none"
        /\ Sel("nda", [ich |-> 0, th1 |-> th1, th2 |-> th2, gamma |-> m[1],
                       gamma1 |-> m[2], add_naa |-> add_naa],
               nda(d, 0, th1, th2, m[1], m[2], add_naa))

Sel_topN_nda ==
    \E N \in 0..(MaxBursts + 1), m \in Modes :
    \E index_sorted \in ArgSorts(BurstSize(d, 0, m[1], m[2]).num) :
        /\ call.fn = "none"
        /\ Sel("topN_nda", [ich |-> 0, N |-> N, gamma |-> m[1], gamma1 |-> m[2]],
               topN_nda(d, 0, N, m[1], m[2], index_sorted))

SpecNda == InitSize /\ [][Sel_nda]_vars

SpecTopN == InitSize /\ [][Sel_topN_nda]_vars

(***************************************************************************)
(* Claims on the size selectors                                            *)
(***************************************************************************)
\* C6: for N >= 0 and a channel of n bursts topN_nda marks exactly
\* min(N, n) bursts, each at least as large as every unmarked one.
C6_TopNCount ==
    call.fn = "topN_nda" =>
        LET mask == ret.value[1]
            size == BurstSize(d, 0, call.args.gamma, call.args.gamma1).num
        IN /\ Len(mask) = Len(d.nd[1])
           /\ MaskSum(mask) = Min(call.args.N, Len(d.nd[1]))
           /\ \A i, j \in 1..Len(mask) : mask[i] /\ ~mask[j] => size[i] >= size[j]

NdaCount(th1, th2) ==
    MaskSum(nda(d, 0, th1, th2, call.args.gamma, call.args.gamma1,
                call.args.add_naa).value[1])

\* C9: with the burst data, the correction mode and add_naa fixed, the
\* number of bursts nda keeps does not grow when th1 grows and does not
\* shrink when th2 grows.
C9_NdaMonotone ==
    call.fn = "nda" =>
        LET kept == MaskSum(ret.value[1]) IN
        /\ \A th1 \in Ths : th1 >= call.args.th1 => NdaCount(th1, call.args.th2) <= kept
        /\ \A th2 \in Ths : th2 >= call.args.th2 => NdaCount(call.args.th1, th2) >= kept

\* an nda call with gamma1 and naa added that keeps one burst and drops
\* another, and that a larger th1 or a smaller th2 would empty
C9_Witness ==
    /\ call.fn = "nda" /\ call.args.gamma1 # None /\ call.args.add_naa /\ d.ALEX
    /\ \E i, j \in 1..Len(ret.value[1]) : ret.value[1][i] /\ ~ret.value[1][j]
    /\ \E th1 \in Ths : NdaCount(th1, call.args.th2) < MaskSum(ret.value[1])
    /\ \E th2 \in Ths : NdaCount(call.args.th1, th2) > MaskSum(ret.value[1])

(***************************************************************************)
(* Proximity and isolation selectors                                       *)
(*                                                                         *)
(* burstsearchlib is not part of these sources: its accessors follow the   *)
(* burst boundaries (start, width, end = start + width, separation =       *)
(* start[i+1] - end[i]).  Millisecond parameters are given in tenths of a  *)
(* millisecond, so that the default ms=0.2 of nearby is an integer.        *)
(***************************************************************************)
MaxGapBursts == 3   \* bursts in a channel (proximity selectors)

b_start(mb) == [i \in 1..Len(mb) |-> mb[i].start]
b_width(mb) == [i \in 1..Len(mb) |-> mb[i].width]
b_end(mb) == [i \in 1..Len(mb) |-> mb[i].start + mb[i].width]
b_separation(obj, ich) ==
    LET mb == obj.mburst[ich + 1]
    IN [i \in 1..(Len(mb) - 1) |-> b_start(mb)[i + 1] - b_end(mb)[i]]

\* ms*1e-3/clk_p
MsToTicks(tenths) == tenths * (TicksPerMs \div 10)

hstack(a, b) == a \o b

\* (burst_start[1:] - burst_end[:-1]) >= th
GapMaskMutant(burst_start, burst_end, th) ==
    [i \in 1..(Len(burst_start) - 1) |-> burst_start[i + 1] - burst_end[i] > th]

GapMask(burst_start, burst_end, th) ==
    [i \in 1..(Len(burst_start) - 1) |-> burst_start[i + 1] - burst_end[i] >= th]

single(obj, ich, th) ==
    LET th_ == MsToTicks(th)
        burst_start == b_start(obj.mburst[ich + 1])
        burst_end == b_end(obj.mburst[ich + 1])
        gap_mask == GapMask(burst_start, burst_end, th_)
    IN Returned(MaskAnd(hstack(gap_mask, <<FALSE>>), hstack(<<FALSE>>, gap_mask)))

SepMask(obj, ich, th) ==
    LET sep == b_separation(obj, ich) IN [i \in 1..Len(sep) |-> sep[i] <= th]

attached(obj, ich) == Returned(hstack(SepMask(obj, ich, 0), <<FALSE>>))

attached2(obj, ich) == Returned(hstack(<<FALSE>>, SepMask(obj, ich, 0)))

nearby(obj, ich, ms) == Returned(hstack(SepMask(obj, ich, MsToTicks(ms)), <<FALSE>>))

nearby2(obj, ich, ms) == Returned(hstack(<<FALSE>>, SepMask(obj, ich, MsToTicks(ms))))

\* gaps between consecutive bursts: touching, and around one millisecond
GapVals == {0, TicksPerMs - 1, TicksPerMs, TicksPerMs + 1}

RECURSIVE StartAfter(_, _)
StartAfter(gaps, i) == IF i = 1 THEN 0 ELSE StartAfter(gaps, i - 1) + 1 + gaps[i - 1]

\* bursts of one tick separated by the given gaps
BurstsFromGaps(gaps) ==
    [i \in 1..(Len(gaps) + 1) |-> [start |-> StartAfter(gaps, i), width |-> 1]]

BurstTrains ==
    {<<>>} \cup {BurstsFromGaps(g) : g \in SeqsUpTo(GapVals, MaxGapBursts - 1)}

InitGap ==
    \E mb \in BurstTrains :
        /\ d = BurstData(Zeros(Len(mb)), Zeros(Len(mb)), Zeros(Len(mb)), Zeros(Len(mb)),
                         Zeros(Len(mb)), mb, <<0>>, FALSE)
        /\ call = NoCall
        /\ ret = NoRet
        /\ frame = NoFrame

MsVals == {2, 10, 20}

Sel_single == \E th \in MsVals : call.fn = "none" /\ Sel("single", [ich |-> 0, th |-> th], single(d, 0, th))

Sel_attached == call.fn = "none" /\ Sel("attached", [ich |-> 0], attached(d, 0))

Sel_attached2 == call.fn = "none" /\ Sel("attached2", [ich |-> 0], attached2(d, 0))

Sel_nearby == \E ms \in MsVals : call.fn = "none" /\ Sel("nearby", [ich |-> 0, ms |-> ms], nearby(d, 0, ms))

Sel_nearby2 == \E ms \in MsVals : call.fn = "none" /\ Sel("nearby2", [ich |-> 0, ms |-> ms], nearby2(d, 0, ms))

NextGap == Sel_single \/ Sel_attached \/ Sel_attached2 \/ Sel_nearby \/ Sel_nearby2

SpecGap == InitGap /\ [][NextGap]_vars

(***************************************************************************)
(* Claims on the proximity selectors                                       *)
(***************************************************************************)
\* the gap, in ticks, between burst i and burst i + 1 of the channel
GapAfter(i) == d.mburst[1][i + 1].start - (d.mburst[1][i].start + d.mburst[1][i].width)

HasNeighbours(i) == 1 < i /\ i < Len(d.mburst[1])

\* C7 as stated: single marks burst i only if it has a burst before and
\* after it and both gaps strictly exceed th in clock ticks, so that a gap
\* equal to the threshold leaves the burst unmarked.
C7_SingleStrict ==
    call.fn = "single" =>
        \A i \in 1..Len(ret.value) :
            ret.value[i] => /\ HasNeighbours(i)
                            /\ GapAfter(i - 1) > MsToTicks(call.args.th)
                            /\ GapAfter(i) > MsToTicks(call.args.th)

\* C7 as amended: single marks burst i exactly when it has a burst before
\* and after it and both gaps are at least th in clock ticks; a gap equal
\* to the threshold counts as isolated.
C7_SingleAtLeast ==
    call.fn = "single" =>
        \A i \in 1..Len(ret.value) :
            ret.value[i] <=> /\ HasNeighbours(i)
                             /\ GapAfter(i - 1) >= MsToTicks(call.args.th)
                             /\ GapAfter(i) >= MsToTicks(call.args.th)

\* a burst marked by single(th=1 ms) whose preceding gap is exactly 80000
\* ticks
C7_Witness ==
    /\ call.fn = "single" /\ call.args.th = 10
    /\ \E i \in 1..Len(ret.value) :
          /\ ret.value[i]
          /\ GapAfter(i - 1) = TicksPerMs
          /\ GapAfter(i) > TicksPerMs

(***************************************************************************)
(* Selection on burst size vs background                                   *)
(*                                                                         *)
(* bg_burst = rate[bp] * width * clk_p counts.  With clk_p = 1/TicksPerSec *)
(* the product rate * width is bg_burst in units of 1/TicksPerSec counts,  *)
(* and count >= F*bg_burst is compared after multiplying both sides out.   *)
(***************************************************************************)
MaxBgBursts == 1    \* bursts in a channel (background selectors)

BgBurst(rates, bp, widths) == [i \in 1..Len(bp) |-> rates[bp[i] + 1] * widths[i]]

nd_bg(obj, ich, F) ==
    LET bg_burst == BgBurst(obj.bg_dd[ich + 1], obj.bp[ich + 1], b_width(obj.mburst[ich + 1]))
    IN Returned([i \in 1..Len(bg_burst) |->
                    obj.nd[ich + 1][i] * TicksPerSec >= CountScale * F * bg_burst[i]])

na_bg(obj, ich, F) ==
    LET bg_burst == BgBurst(obj.bg_ad[ich + 1], obj.bp[ich + 1], b_width(obj.mburst[ich + 1]))
    IN Returned([i \in 1..Len(bg_burst) |->
                    obj.na[ich + 1][i] * TicksPerSec >= CountScale * F * bg_burst[i]])

naa_bg(obj, ich, F) ==
    LET bg_burst == BgBurst(obj.bg_aa[ich + 1], obj.bp[ich + 1], b_width(obj.mburst[ich + 1]))
    IN Returned([i \in 1..Len(bg_burst) |->
                    obj.naa[ich + 1][i] * TicksPerSec >= CountScale * F * bg_burst[i]])

nt_bg(obj, ich, F) ==
    LET bg_burst == BgBurst(obj.bg[ich + 1], obj.bp[ich + 1], b_width(obj.mburst[ich + 1]))
    IN Returned([i \in 1..Len(bg_burst) |->
                    obj.nt[ich + 1][i] * TicksPerSec > CountScale * F * bg_burst[i]])

\* counts of 4.5, 5 and 5.5 photons; bursts one millisecond wide; a
\* background of 1000 counts per second in period 0 and 2000 in period 1
BgCounts == {9, 10, 11}
BgRates == <<1000, 2000>>
BgFactors == {1, 5}

InitBg ==
    \E n \in 0..MaxBgBursts :
    \E nd_ \in [1..n -> BgCounts], na_ \in [1..n -> BgCounts],
       naa_ \in [1..n -> BgCounts], nt_ \in [1..n -> BgCounts], bp_ \in [1..n -> {0, 1}] :
        /\ d = BurstData(nd_, na_, naa_, nt_, bp_,
                         [i \in 1..n |-> [start |-> 2 * i * TicksPerMs, width |-> TicksPerMs]],
                         BgRates, TRUE)
        /\ call = NoCall
        /\ ret = NoRet
        /\ frame = NoFrame

Sel_nd_bg == \E F \in BgFactors : call.fn = "none" /\ Sel("nd_bg", [ich |-> 0, F |-> F], nd_bg(d, 0, F))

Sel_na_bg == \E F \in BgFactors : call.fn = "none" /\ Sel("na_bg", [ich |-> 0, F |-> F], na_bg(d, 0, F))

Sel_naa_bg == \E F \in BgFactors : call.fn = "none" /\ Sel("naa_bg", [ich |-> 0, F |-> F], naa_bg(d, 0, F))

Sel_nt_bg == \E F \in BgFactors : call.fn = "none" /\ Sel("nt_bg", [ich |-> 0, F |-> F], nt_bg(d, 0, F))

NextBg == Sel_nd_bg \/ Sel_na_bg \/ Sel_naa_bg \/ Sel_nt_bg

SpecBg == InitBg /\ [][NextBg]_vars

\* the count array each background selector reads
BgCountOf(fn) == CASE fn = "nd_bg" -> d.nd[1]
                   [] fn = "na_bg" -> d.na[1]
                   [] fn = "naa_bg" -> d.naa[1]
                   [] fn = "nt_bg" -> d.nt[1]

\* C8: each of nd_bg, na_bg, naa_bg and nt_bg keeps burst i iff its count
\* strictly exceeds F times rate[bp[i]] * width[i] * clk_p, so that all
\* four reject a burst whose count equals F times the expected background.
C8_BgStrict ==
    call.fn \in {"nd_bg", "na_bg", "naa_bg", "nt_bg"} =>
        \A i \in 1..Len(ret.value) :
            ret.value[i] <=>
                BgCountOf(call.fn)[i] * TicksPerSec >
                    CountScale * call.args.F * d.bg[1][d.bp[1][i] + 1] * d.mburst[1][i].width

(***************************************************************************)
(* fret_value                                                              *)
(***************************************************************************)
MaxFretBursts == 2  \* bursts in a channel (fret_value)
MaxBinomN == 8      \* largest n whose binomial quantile is summed exactly
Uint16Range == 65536

\* np.around of x2/CountScale: to the nearest integer, halves to the even one
Around(x2) ==
    IF x2 % CountScale = 0 THEN x2 \div CountScale
    ELSE LET f == (x2 - 1) \div CountScale
         IN IF f % 2 = 0 THEN f ELSE f + 1

\* .astype(np.uint16) of an integral float: the value itself when it fits;
\* out of range the C conversion is undefined, and builds either wrap
\* modulo 2^16 or saturate
Uint16(x, cast) ==
    IF 0 <= x /\ x < Uint16Range THEN x
    ELSE IF cast = "wrap" THEN x % Uint16Range
    ELSE IF x < 0 THEN 0 ELSE Uint16Range - 1

RECURSIVE Pow(_, _)
Pow(b, e) == IF e = 0 THEN 1 ELSE b * Pow(b, e - 1)

RECURSIVE Choose(_, _)
Choose(n, k) == IF k = 0 \/ k = n THEN 1 ELSE Choose(n - 1, k - 1) + Choose(n - 1, k)

\* F[2]^n * P{Binomial(n, F) <= k}
RECURSIVE BinomCdfNum(_, _, _)
BinomCdfNum(n, F, k) ==
    IF k < 0 THEN 0
    ELSE Choose(n, k) * Pow(F[1], k) * Pow(F[2] - F[1], n - k) + BinomCdfNum(n, F, k - 1)

\* ss.binom(n, F).ppf(P): the smallest k with P{Binomial(n, F) <= k} >= P.
\* The quantile does not decrease with n; beyond MaxBinomN the quantile of
\* MaxBinomN stands for it, a lower bound that decides `na > ppf` for the
\* bursts drawn here, whose na does not exceed it.
BinomPPF(n, F, P) ==
    LET m == Min(n, MaxBinomN)
    IN CHOOSE k \in 0..m :
          /\ P[2] * BinomCdfNum(m, F, k) >= P[1] * Pow(F[2], m)
          /\ \A j \in 0..(k - 1) : P[2] * BinomCdfNum(m, F, j) < P[1] * Pow(F[2], m)

fret_value(obj, ich, F, P_th, cast) ==
    LET nd_ == obj.nd[ich + 1]
        na_ == obj.na[ich + 1]
        bsizes == [i \in 1..Len(nd_) |-> Uint16(Around(nd_[i] + na_[i]), cast)]
    IN IF Len(bsizes) = 0 THEN Raised("ValueError")
       ELSE Returned([i \in 1..Len(bsizes) |->
                         na_[i] > CountScale * BinomPPF(bsizes[i], F, P_th)])

\* (nd, na) of a burst: up to two photons each in halves; 65537 or 65537.5
\* donor photons with at most one acceptor photon; -2 donor photons
\* (background-corrected) with at most one acceptor photon
FretPairs == ((0..4) \X (0..4))
             \cup ({131074, 131075} \X {1, 2})
             \cup ({0 - 4} \X {1, 2})

FretProbs == {<<1, 100>>, <<1, 2>>}

InitFret ==
    \E n \in 0..MaxFretBursts :
    \E b \in [1..n -> FretPairs] :
        /\ d = BurstData([i \in 1..n |-> b[i][1]], [i \in 1..n |-> b[i][2]], Zeros(n),
                         [i \in 1..n |-> b[i][1] + b[i][2]], Zeros(n), PlainBursts(n),
                         <<0>>, FALSE)
        /\ call = NoCall
        /\ ret = NoRet
        /\ frame = NoFrame

Sel_fret_value ==
    \E P_th \in FretProbs, cast \in {"wrap", "saturate"} :
        /\ call.fn = "none"
        /\ Sel("fret_value", [ich |-> 0, F |-> <<1, 2>>, P_th |-> P_th],
               fret_value(d, 0, <<1, 2>>, P_th, cast))

SpecFret == InitFret /\ [][Sel_fret_value]_vars

\* C10: fret_value keeps burst i iff na[i] strictly exceeds the P_th-quantile
\* of Binomial(n, F) for n = round(nd[i] + na[i]) itself, whatever the sign
\* or the magnitude of n (no quantile exists for n < 0, so nothing exceeds
\* it).
C10_FretSameN ==
    (call.fn = "fret_value" /\ ret.raised = "none") =>
        \A i \in 1..Len(ret.value) :
            LET n == Around(d.nd[1][i] + d.na[1][i])
            IN ret.value[i] <=>
                  /\ n >= 0
                  /\ d.na[1][i] > CountScale * BinomPPF(n, call.args.F, call.args.P_th)

(***************************************************************************)
(* Selection on static burst size, width or period                         *)
(*                                                                         *)
(* An optional argument is <<>> for None and <<v>> for the value v.        *)
(***************************************************************************)
MaxOf(v) == CHOOSE x \in SeqRange(v) : \A y \in SeqRange(v) : y <= x

RangeMask(v, lo, hi) == [i \in 1..Len(v) |-> v[i] >= lo /\ v[i] <= hi]

period(obj, ich, bp1, bp2) ==
    IF bp2 = None /\ Len(obj.bp[ich + 1]) = 0 THEN Raised("ValueError")
    ELSE LET bp2_ == IF bp2 = None THEN MaxOf(obj.bp[ich + 1]) ELSE bp2[1]
         IN Returned(<<RangeMask(obj.bp[ich + 1], bp1, bp2_), "">>)

\* burst_start is compared in ticks: b_start*clk_p >= time_s1 seconds
time(obj, ich, time_s1, time_s2) ==
    LET burst_start == b_start(obj.mburst[ich + 1])
    IN IF time_s2 = None /\ Len(burst_start) = 0 THEN Raised("ValueError")
       ELSE LET hi == IF time_s2 = None THEN MaxOf(burst_start)
                      ELSE time_s2[1] * TicksPerSec
            IN Returned(<<RangeMask(burst_start, time_s1 * TicksPerSec, hi), "">>)

nd(obj, ich, th1, th2) ==
    Returned(<<RangeMask(obj.nd[ich + 1], th1 * CountScale, th2 * CountScale), "">>)

na(obj, ich, th1, th2) ==
    Returned(<<RangeMask(obj.na[ich + 1], th1 * CountScale, th2 * CountScale), "">>)

naa(obj, ich, th1, th2) ==
    Returned(<<RangeMask(obj.naa[ich + 1], th1 * CountScale, th2 * CountScale), "">>)

width(obj, ich, th1, th2) ==
    Returned(<<RangeMask(b_width(obj.mburst[ich + 1]), MsToTicks(th1), MsToTicks(th2)), "">>)

\* 100 * np.percentile(v, q), linear interpolation between the two order
\* statistics around position q/100 * (n - 1)
Percentile100(v, q) ==
    LET n == Len(v)
        p == CHOOSE x \in ArgSorts(v) : TRUE
        pos == q * (n - 1)
        lo == pos \div 100
        hi == Min(lo + 1, n - 1)
    IN 100 * v[p[lo + 1]] + (pos % 100) * (v[p[hi + 1]] - v[p[lo + 1]])

\* np.percentile of an empty array raises in some numpy releases and gives
\* nan (hence an empty mask) in others: `empty` is the outcome
nda_percentile(obj, ich, q, low, gamma, gamma1, empty) ==
    LET burst_size == BurstSize(obj, ich, gamma, gamma1)
    IN IF Len(burst_size.num) = 0
       THEN (IF empty = "raise" THEN Raised("IndexError")
             ELSE Returned(<<<<>>, <<"perc", q>>>>))
       ELSE LET q_percentile == Percentile100(burst_size.num, q)
            IN Returned(<<[i \in 1..Len(burst_size.num) |->
                              IF low THEN 100 * burst_size.num[i] <= q_percentile
                              ELSE 100 * burst_size.num[i] >= q_percentile],
                          <<"perc", q>>>>)

Sel_period ==
    \E bp1 \in {0, 1}, bp2 \in {None, <<1>>} :
        /\ call.fn = "none"
        /\ Sel("period", [ich |-> 0, bp1 |-> bp1, bp2 |-> bp2], period(d, 0, bp1, bp2))

Sel_time ==
    \E time_s2 \in {None, <<1>>} :
        /\ call.fn = "none"
        /\ Sel("time", [ich |-> 0, time_s1 |-> 0, time_s2 |-> time_s2], time(d, 0, 0, time_s2))

Sel_nd == call.fn = "none" /\ Sel("nd", [ich |-> 0, th1 |-> 1, th2 |-> 1000], nd(d, 0, 1, 1000))

Sel_na == call.fn = "none" /\ Sel("na", [ich |-> 0, th1 |-> 1, th2 |-> 1000], na(d, 0, 1, 1000))

Sel_naa == call.fn = "none" /\ Sel("naa", [ich |-> 0, th1 |-> 1, th2 |-> 1000], naa(d, 0, 1, 1000))

Sel_width == call.fn = "none" /\ Sel("width", [ich |-> 0, th1 |-> 5, th2 |-> 10], width(d, 0, 5, 10))

Sel_nda_percentile ==
    \E q \in {0, 50, 100}, low \in BOOLEAN, m \in Modes, empty \in {"raise", "nan"} :
        /\ call.fn = "none"
        /\ Sel("nda_percentile", [ich |-> 0, q |-> q, low |-> low, gamma |-> m[1],
                                  gamma1 |-> m[2]],
               nda_percentile(d, 0, q, low, m[1], m[2], empty))

\* every dataset drawn for one family of predicates, an empty channel among
\* them
InitSel == InitSize \/ InitGap

NextSel ==
    \/ Sel_period \/ Sel_time \/ Sel_nd \/ Sel_na \/ Sel_naa
    \/ Sel_nda \/ Sel_nda_percentile \/ Sel_topN_nda \/ Sel_width
    \/ Sel_single \/ Sel_attached \/ Sel_attached2 \/ Sel_nearby \/ Sel_nearby2
    \/ Sel_nd_bg \/ Sel_na_bg \/ Sel_naa_bg \/ Sel_nt_bg
    \/ Sel_fret_value

SpecSel == InitSel /\ [][NextSel]_vars

\* the predicates that return the mask alone; the others return (mask, label)
MaskOnly == {"single", "attached", "attached2", "nearby", "nearby2",
             "nd_bg", "na_bg", "naa_bg", "nt_bg", "fret_value"}

\* C5: on a channel of n >= 0 bursts every predicate returns, without
\* raising, a mask of exactly n entries; on an empty channel, an empty mask.
C5_MaskAligned ==
    call.fn \notin {"none", "usalex_apply_period"} =>
        /\ ret.raised = "none"
        /\ Len(IF call.fn \in MaskOnly THEN ret.value ELSE ret.value[1]) = Len(d.nd[1])

====
